---------------------------- MODULE Spec2Model ----------------------------
(***************************************************************************)
(* A model of the EXIF overlay page (src/pages/index.js, component Home):  *)
(* metadata extraction on upload, the settings persisted in localStorage,  *)
(* the redraw effect and its image-load callbacks, the layout and scaling  *)
(* arithmetic of drawImageWithText, and the batch export.                  *)
(*                                                                         *)
(* JavaScript values are modelled as follows.  `undefined` and `null` are  *)
(* the strings Undefined and Null.  A JS number that the code only prints  *)
(* is an integer; a double the code computes with is a record              *)
(* [mant, exp] of 53 mantissa bits and a binary exponent (see Double).     *)
(* A file name is a sequence of one-character strings, so that the regular *)
(* expression of the export can be applied to it character by character.   *)
(***************************************************************************)
EXTENDS Integers, Sequences, FiniteSets, Bags, TLC

Undefined == "undefined"
Null == "null"

(***************************************************************************)
(* Generic helpers.                                                        *)
(***************************************************************************)
Range(s) == {s[i] : i \in 1..Len(s)}

RECURSIVE JoinChars(_)
JoinChars(cs) == IF cs = <<>> THEN "" ELSE Head(cs) \o JoinChars(Tail(cs))


(***************************************************************************)
(* IEEE-754 double arithmetic, as far as the page uses it:                 *)
(* (resolution / newWidth) * newHeight in drawImageWithText and the        *)
(* conversion of the result to the integer canvas height, and              *)
(* Math.round(1 / exif.ExposureTime) in handleImageUpload.  A positive     *)
(* double is [mant, exp]: mant holds the bits of the significand as five   *)
(* limbs, the leading bit and four limbs of LimbBits bits, most            *)
(* significant first, and the value is mant * 2^exp.  Every operation      *)
(* rounds to nearest, ties to even.  The integer operands are below        *)
(* 2^LimbBits (image sides up to 8191).                                    *)
(***************************************************************************)
SignificandBits == 53
LimbBits == (SignificandBits - 1) \div 4
Limb == 2^LimbBits

\* floor(log2(a / b)) for integers a, b > 0.
RECURSIVE Log2Ratio(_, _)
Log2Ratio(a, b) ==
    IF a < b THEN Log2Ratio(2 * a, b) - 1
    ELSE IF a >= 2 * b THEN Log2Ratio(a, 2 * b) + 1
    ELSE 0

\* mant + 1; the leading limb becomes 2 when every bit was set.
RECURSIVE Increment(_, _)
Increment(mant, i) ==
    IF i = 1 THEN [mant EXCEPT ![1] = mant[1] + 1]
    ELSE IF mant[i] + 1 < Limb THEN [mant EXCEPT ![i] = mant[i] + 1]
    ELSE Increment([mant EXCEPT ![i] = 0], i - 1)

\* The exact significand mant, followed by a guard bit and a sticky flag,
\* rounded to nearest-even and renormalised; exp is the weight of its last bit.
RoundToDouble(mant, guard, sticky, exp) ==
    LET up == guard /\ (sticky \/ mant[5] % 2 = 1)
        r  == IF up THEN Increment(mant, 5) ELSE mant
    IN  IF r[1] = 2
        THEN [mant |-> <<1, 0, 0, 0, 0>>, exp |-> exp + 1]
        ELSE [mant |-> r, exp |-> exp]

\* The double a / b of two positive integers: long division, one limb at a
\* time, of the ratio scaled into [1, 2).
DoubleDiv(a, b) ==
    LET e   == Log2Ratio(a, b)
        num == IF e < 0 THEN a * 2^(-e) ELSE a
        den == IF e > 0 THEN b * 2^e ELSE b
        r0  == num - den
        d1  == (r0 * Limb) \div den
        r1  == (r0 * Limb) % den
        d2  == (r1 * Limb) \div den
        r2  == (r1 * Limb) % den
        d3  == (r2 * Limb) \div den
        r3  == (r2 * Limb) % den
        d4  == (r3 * Limb) \div den
        r4  == (r3 * Limb) % den
        g   == 2 * r4 >= den
        rest == IF g THEN 2 * r4 - den ELSE 2 * r4
    IN  RoundToDouble(<<1, d1, d2, d3, d4>>, g, rest > 0, e - 4 * LimbBits)

\* The double x * h of a double and a positive integer below Limb.
DoubleTimesInt(x, h) ==
    LET m  == x.mant
        t5 == m[5] * h
        t4 == m[4] * h + t5 \div Limb
        t3 == m[3] * h + t4 \div Limb
        t2 == m[2] * h + t3 \div Limb
        t1 == m[1] * h + t2 \div Limb
        \* the exact product is t1 : t2 % Limb : ... : t5 % Limb, and t1 has
        \* k bits too many
        k  == Log2Ratio(t1, 1)
        lo == 2^k
        hi == 2^(LimbBits - k)
        p  == <<t1 \div lo,
                (t1 % lo) * hi + (t2 % Limb) \div lo,
                (t2 % lo) * hi + (t3 % Limb) \div lo,
                (t3 % lo) * hi + (t4 % Limb) \div lo,
                (t4 % lo) * hi + (t5 % Limb) \div lo>>
        dropped == t5 % lo
        g  == k >= 1 /\ dropped \div 2^(k - 1) = 1
        s  == k >= 2 /\ dropped % 2^(k - 1) # 0
    IN  RoundToDouble(p, g, s, x.exp + k)

\* The significand's leading n limbs as an integer.
RECURSIVE LimbsToInt(_, _)
LimbsToInt(mant, n) ==
    IF n = 0 THEN 0
    ELSE IF n = 1 THEN mant[1]
    ELSE LimbsToInt(mant, n - 1) * Limb + mant[n]

\* IntegerPart of a double: what assigning it to canvas.height keeps.
DoubleTrunc(x) ==
    LET f == -x.exp
        j == f \div LimbBits
        s == f % LimbBits
    IN  IF f <= 0 THEN LimbsToInt(x.mant, 5) * 2^(-f)
        ELSE IF j >= 5 THEN 0
        ELSE LimbsToInt(x.mant, 5 - j) \div 2^s

DoubleIsInteger(x) ==
    LET f == -x.exp
        j == f \div LimbBits
        s == f % LimbBits
    IN  \/ f <= 0
        \/ /\ j < 5
           /\ \A i \in (6 - j)..5 : x.mant[i] = 0
           /\ x.mant[5 - j] % 2^s = 0

\* a - q * b for two naturals given as sequences of limbs of equal length,
\* most significant first, and an integer q: the limbs of the difference and
\* the carry out of the leading limb (0 when the difference is a natural of
\* that many limbs, negative when a < q * b).
RECURSIVE BigSubMul(_, _, _)
BigSubMul(a, b, q) ==
    IF a = <<>> THEN [limbs |-> <<>>, carry |-> 0]
    ELSE LET low == BigSubMul(Tail(a), Tail(b), q)
             t   == Head(a) - q * Head(b) + low.carry
         IN  [limbs |-> <<t % Limb>> \o low.limbs, carry |-> t \div Limb]

\* One step of the long division by the significand m, for a remainder
\* r < m: the next limb q of the quotient, r * Limb = q * m + rem.  The
\* quotient of the leading limbs is within 2 of q.
DivStep(r, m) ==
    LET a   == r \o <<0>>
        b   == <<0>> \o m
        est == (a[1] * Limb * Limb + a[2] * Limb + a[3]) \div (b[2] * Limb + b[3])
        q   == CHOOSE c \in (est - 2)..(est + 2) :
                  /\ c >= 0
                  /\ BigSubMul(a, b, c).carry = 0
                  /\ BigSubMul(a, b, c + 1).carry < 0
    IN  [q |-> q, rem |-> Tail(BigSubMul(a, b, q).limbs)]

\* The double 1 / x of a double x: the significand is that of
\* 2^(2 * SignificandBits - 1) / mant, a number of SignificandBits bits
\* unless mant is a power of two.
DoubleInverse(x) ==
    LET m     == x.mant
        r0    == BigSubMul(<<2, 0, 0, 0, 0>>, m, 1).limbs
        s1    == DivStep(r0, m)
        s2    == DivStep(s1.rem, m)
        s3    == DivStep(s2.rem, m)
        s4    == DivStep(s3.rem, m)
        twice == BigSubMul(s4.rem, s4.rem, -1).limbs
        over  == BigSubMul(twice, m, 1)
        g     == over.carry = 0
        rest  == IF g THEN over.limbs ELSE twice
    IN  IF m = <<1, 0, 0, 0, 0>>
        THEN [mant |-> m, exp |-> -(2 * (SignificandBits - 1)) - x.exp]
        ELSE RoundToDouble(<<1, s1.q, s2.q, s3.q, s4.q>>, g,
                           rest # <<0, 0, 0, 0, 0>>,
                           -(2 * SignificandBits - 1) - x.exp)

\* Math.round of a positive double: the integer nearest to it, the upper
\* one when it lies halfway.
MathRound(y) == (DoubleTrunc([y EXCEPT !.exp = @ + 1]) + 1) \div 2

(***************************************************************************)
(* drawImageWithText, lines 354-363: the output dimensions.  resolution is *)
(* the state of the Select, one of the strings ResolutionOptions; the      *)
(* comparison and the division convert it to a number.                     *)
(***************************************************************************)
ResolutionOptions == {"1920", "1080", "original"}

ToNumber(s) == CASE s = "1920" -> 1920
                 [] s = "1080" -> 1080

\* newWidth and newHeight after the if of line 357, and the canvas size
\* the two assignments of lines 362-363 leave.
ScaledSize(w, h, resolution) ==
    IF resolution # "original" /\ w > ToNumber(resolution)
    THEN LET nh == DoubleTimesInt(DoubleDiv(ToNumber(resolution), w), h)
         IN  [scaled |-> TRUE,
              width |-> ToNumber(resolution),
              height |-> DoubleTrunc(nh),
              exact |-> DoubleIsInteger(nh)]
    ELSE [scaled |-> FALSE, width |-> w, height |-> h, exact |-> TRUE]


(***************************************************************************)
(* drawImageWithText, lines 382-405: the text block.  A coordinate is a    *)
(* JS number [n, d], the fraction n / d in lowest terms; Infinity and      *)
(* -Infinity are 1/0 and -1/0 (Math.max of no arguments is -Infinity).     *)
(***************************************************************************)
Padding == 20
LineGap == 5

Whole(n) == [n |-> n, d |-> 1]
PosInfinity == [n |-> 1, d |-> 0]
NegInfinity == [n |-> -1, d |-> 0]

\* Math.max(...widths) of a sequence of integer widths.
RECURSIVE MathMax(_)
MathMax(ws) ==
    IF ws = <<>> THEN NegInfinity
    ELSE LET rest == MathMax(Tail(ws))
         IN  IF rest = NegInfinity \/ Head(ws) >= rest.n THEN Whole(Head(ws)) ELSE rest

\* a - m for an integer a and m an integer or -Infinity.
Minus(a, m) == IF m = NegInfinity THEN PosInfinity ELSE Whole(a - m.n)

\* v / 2 for v an integer or Infinity.
Halve(v) ==
    IF v = PosInfinity THEN PosInfinity
    ELSE IF v.n % 2 = 0 THEN Whole(v.n \div 2)
    ELSE [n |-> v.n, d |-> 2]

\* TextOrigin with the line pitch mis-parenthesised: n * fontSize + 5.
TextOriginMutant(textPosition, textWidths, fontSize, newWidth, newHeight) ==
    LET maxTextWidth == MathMax(textWidths)
        bottom == newHeight - (Len(textWidths) * fontSize + 5)
        top    == Padding + fontSize
    IN  CASE textPosition = "bottom-center" ->
               [x |-> Halve(Minus(newWidth, maxTextWidth)), y |-> bottom]
          [] textPosition \in {"top-right", "bottom-right"} ->
               [x |-> Minus(newWidth - Padding, maxTextWidth),
                y |-> IF textPosition = "top-right" THEN top ELSE bottom]
          [] OTHER ->
               [x |-> Whole(Padding),
                y |-> IF textPosition = "top-left" THEN top ELSE bottom]

\* The switch of lines 387-400: the origin of the text block.
TextOrigin(textPosition, textWidths, fontSize, newWidth, newHeight) ==
    LET maxTextWidth == MathMax(textWidths)
        bottom == newHeight - (Len(textWidths) * (fontSize + LineGap))
        top    == Padding + fontSize
    IN  CASE textPosition = "bottom-center" ->
               [x |-> Halve(Minus(newWidth, maxTextWidth)), y |-> bottom]
          [] textPosition \in {"top-right", "bottom-right"} ->
               [x |-> Minus(newWidth - Padding, maxTextWidth),
                y |-> IF textPosition = "top-right" THEN top ELSE bottom]
          [] OTHER ->
               [x |-> Whole(Padding),
                y |-> IF textPosition = "top-left" THEN top ELSE bottom]

\* The forEach of lines 402-405: the baseline of each line drawn, in order
\* (index counts from 0).
Baselines(y, lineCount, fontSize) ==
    [i \in 1..lineCount |-> y + (i - 1) * (fontSize + LineGap)]

TextPositions ==
    {"top-left", "top-right", "bottom-left", "bottom-right", "bottom-center"}

(***************************************************************************)
(* downloadAllImages, line 427: name.replace(/\.[^/.]+$/, "") on a name    *)
(* given as a sequence of characters.  The expression matches a dot        *)
(* followed, up to the end of the name, by one or more characters that are *)
(* neither a dot nor a slash; at most one position can match.              *)
(***************************************************************************)
ExtensionStart(name) ==
    {i \in 1..Len(name) :
        /\ name[i] = "."
        /\ i < Len(name)
        /\ \A k \in (i + 1)..Len(name) : name[k] \notin {".", "/"}}

StripExtension(name) ==
    IF ExtensionStart(name) = {} THEN name
    ELSE LET i == CHOOSE k \in ExtensionStart(name) : TRUE
         IN  SubSeq(name, 1, i - 1)

\* The name of the entry's download: `${...}_exif.jpg`.
ExportName(name) == JoinChars(StripExtension(name)) \o "_exif.jpg"


(***************************************************************************)
(* handleImageUpload, lines 315-334: the metadata of one file.  A value of *)
(* the parsed EXIF object is a tagged JS value [t, v]: a string <<s>>, a   *)
(* number <<n, d>> (the double nearest to the fraction n / d), or          *)
(* undefined <<>>.  An object is a function from its own keys to values;   *)
(* reading a key it does not have gives undefined.                         *)
(***************************************************************************)
Str(s) == [t |-> "string", v |-> <<s>>]
Num(n, d) == [t |-> "number", v |-> <<n, d>>]
Undef == [t |-> "undefined", v |-> <<>>]
EmptyObject == [k \in {} |-> Undef]

\* exif?.key: undefined when exif itself is undefined or lacks the key.
Prop(obj, key) ==
    IF obj = Undef THEN Undef
    ELSE IF key \in DOMAIN obj THEN obj[key] ELSE Undef

\* ToBoolean: "", 0 and undefined are falsy.
Truthy(v) ==
    CASE v.t = "string" -> v.v[1] # ""
      [] v.t = "number" -> v.v[1] # 0
      [] OTHER -> FALSE

\* The digits of a fraction with denominator 1, 10 or 100, as JS prints the
\* number (no trailing zeros).
NumberToString(n, d) ==
    LET a     == IF n < 0 THEN -n ELSE n
        sign  == IF n < 0 THEN "-" ELSE ""
        whole == ToString(a \div d)
        frac  == a % d
    IN  CASE frac = 0 -> sign \o whole
          [] d = 10 -> sign \o whole \o "." \o ToString(frac)
          [] d = 100 /\ frac % 10 = 0 ->
                sign \o whole \o "." \o ToString(frac \div 10)
          [] d = 100 /\ frac < 10 -> sign \o whole \o ".0" \o ToString(frac)
          [] d = 100 -> sign \o whole \o "." \o ToString(frac)

\* `${v}`: the string a template literal makes of a value.
ToDisplay(v) ==
    CASE v.t = "string" -> v.v[1]
      [] v.t = "number" -> NumberToString(v.v[1], v.v[2])
      [] OTHER -> "undefined"

\* a || "N/A"
OrNA(v) == IF Truthy(v) THEN v ELSE Str("N/A")

\* a ?? "N/A"
CoalesceNA(v) == IF v = Undef THEN Str("N/A") ELSE v

\* Math.round(1 / x) for a positive number x, line 324: x is the double
\* n / d, and 1 / x is a double again.
RoundInverse(x) == MathRound(DoubleInverse(DoubleDiv(x.v[1], x.v[2])))

FieldNames ==
    {"camera", "date", "iso", "shutter", "aperture", "focal", "gps",
     "description"}

\* The object literal of lines 320-329.
ExifData(exif) ==
    [f \in FieldNames |->
        CASE f = "camera" -> OrNA(Prop(exif, "Model"))
          [] f = "date" -> OrNA(Prop(exif, "DateTimeOriginal"))
          [] f = "iso" -> OrNA(Prop(exif, "ISO"))
          [] f = "shutter" ->
                IF Truthy(Prop(exif, "ExposureTime"))
                THEN Str("1/" \o ToString(RoundInverse(Prop(exif, "ExposureTime"))))
                ELSE Str("N/A")
          [] f = "aperture" ->
                Str("f/" \o ToDisplay(CoalesceNA(Prop(exif, "FNumber"))))
          [] f = "focal" ->
                Str(ToDisplay(CoalesceNA(Prop(exif, "FocalLength"))) \o "mm")
          [] f = "gps" ->
                IF Truthy(Prop(exif, "latitude")) /\ Truthy(Prop(exif, "longitude"))
                THEN Str(ToDisplay(Prop(exif, "latitude")) \o ", "
                         \o ToDisplay(Prop(exif, "longitude")))
                ELSE Str("N/A")
          [] f = "description" -> OrNA(Prop(exif, "ImageDescription"))]

\* The try / catch around the parse: parsed is [threw, exif]; when the parse
\* throws, exifData stays the {} of line 315.
ExtractMetadata(parsed) ==
    IF parsed.threw THEN EmptyObject ELSE ExifData(parsed.exif)

\* The lines the callback draws (lines 371-382): label and value of each
\* selected field, in the order selected.
FieldLabel(f) ==
    CASE f = "camera" -> "Camera: "
      [] f = "date" -> "Date: "
      [] f = "iso" -> "ISO: "
      [] f = "shutter" -> "Shutter: "
      [] f = "aperture" -> "Aperture: "
      [] f = "focal" -> "Focal Length: "
      [] f = "gps" -> "GPS: "
      [] f = "description" -> "Description: "

TextLines(exifData, selectedExifFields) ==
    [i \in 1..Len(selectedExifFields) |->
        FieldLabel(selectedExifFields[i])
            \o ToDisplay(Prop(exifData, selectedExifFields[i]))]


(***************************************************************************)
(* The state of the page.                                                  *)
(***************************************************************************)
VARIABLES
    pc,            \* where the mount is: "mount_theme", "mount_persist",
                   \* "mount_restore", "mount_commit", then "ready"
    localStorage,  \* [theme, exifSettings]: theme is Null or a string;
                   \* exifSettings is <<>> (no item) or <<the JSON object>>
    st,            \* the useState values of lines 271-278
    colorScheme,   \* useMantineColorScheme().colorScheme
    pendingState,  \* [st, colorScheme] after the setters called since the
                   \* last render
    images,        \* the useState value of line 270: a sequence of entries
    canvasRefs,    \* canvasRefs.current: url -> "canvas" or Null
    surfaces,      \* what each canvas element holds: <<>> (never drawn) or
                   \* <<the drawing>>
    objectUrls,    \* the object URLs created and not revoked
    urlCount,      \* how many object URLs were created so far
    uploads,       \* the calls of handleImageUpload that await their parses
    lastUpload,    \* the URLs the most recent call of handleImageUpload made
    pendingLoads,  \* the img.onload callbacks set and not yet fired: a bag,
                   \* one copy per Image element made
    exportJob,     \* <<>> or <<the running call of downloadAllImages>>
    downloads,     \* the archives handed to saveAs, in order
    stored0,       \* localStorage.exifSettings as it was before the mount
    calc           \* input and output of a computation checked on its own

vars == <<pc, localStorage, st, colorScheme, pendingState, images, canvasRefs,
          surfaces, objectUrls, urlCount, uploads, lastUpload, pendingLoads,
          exportJob, downloads, stored0, calc>>

pageVars == <<pc, localStorage, st, colorScheme, pendingState, images,
              canvasRefs, surfaces, objectUrls, urlCount, uploads, lastUpload,
              pendingLoads, exportJob, downloads, stored0>>

Fonts ==
    {"Arial", "Verdana", "Times New Roman", "Courier New", "Georgia", "Tahoma"}

AllFields ==
    <<"camera", "date", "iso", "shutter", "aperture", "focal", "gps",
      "description">>

\* The initial values of the useState calls, lines 271-278.
DefaultState ==
    [selectedFont |-> "Arial",
     resolution |-> "1920",
     textPosition |-> "top-left",
     fontSize |-> 20,
     textColor |-> "#FFFFFF",
     showOutline |-> TRUE,
     selectedExifFields |-> AllFields,
     imageQuality |-> 100]

(***************************************************************************)
(* The persisted object.  Its four values are a number, a string, a        *)
(* boolean and an array of strings, which JSON.stringify and JSON.parse    *)
(* give back unchanged, so the stored item is modelled by the object       *)
(* itself; reading a key the object does not have gives undefined.         *)
(***************************************************************************)
\* The object of lines 296-298.
SettingsObject(s) ==
    [fontSize |-> s.fontSize,
     textColor |-> s.textColor,
     showOutline |-> s.showOutline,
     selectedExifFields |-> s.selectedExifFields]

\* savedSettings.key
Saved(obj, key) == IF key \in DOMAIN obj THEN obj[key] ELSE Undefined

\* The dependency lists of the effects, lines 299 and 347 (images is
\* compared by identity: see Render).
PersistDeps(s) ==
    <<s.selectedFont, s.fontSize, s.textColor, s.showOutline,
      s.selectedExifFields>>

DrawDeps(s) ==
    <<s.selectedFont, s.resolution, s.textPosition, s.fontSize, s.textColor,
      s.showOutline, s.selectedExifFields>>


(***************************************************************************)
(* A render of Home and the effects that follow it.                        *)
(***************************************************************************)
Urls(imgs) == {imgs[i].url : i \in 1..Len(imgs)}

\* drawImageWithText up to line 353: an Image is created whose onload closes
\* over the entry and over the state of the render that ran the effect.
LoadCallback(image, s, scheme) ==
    [url |-> image.url, image |-> image, st |-> s, dark |-> scheme = "dark"]

\* The redraw effect, lines 341-347, run after a render with state s:
\* one new Image, and so one callback, per entry whose canvas is mounted
\* (the entries of a collection have distinct URLs).
RedrawEffect(imgs, refs, s, scheme) ==
    SetToBag({LoadCallback(imgs[i], s, scheme) :
                 i \in {k \in 1..Len(imgs) : refs[imgs[k].url] # Null}})

\* What the callback of lines 353-406 leaves on the canvas: its size and the
\* style, lines and anchor of the text drawn on it (the text origin is
\* TextOrigin of these and of the widths the browser measures).
Drawing(image, s, dark) ==
    LET size == ScaledSize(image.file.width, image.file.height, s.resolution)
    IN  [width |-> size.width,
         height |-> size.height,
         font |-> ToString(s.fontSize) \o "px '" \o s.selectedFont
                    \o "', sans-serif",
         fillStyle |-> s.textColor,
         strokeStyle |-> IF dark THEN "#FFFFFF" ELSE "#000000",
         outline |-> s.showOutline,
         anchor |-> s.textPosition,
         lines |-> TextLines(image.exifData, s.selectedExifFields)]

\* Render with the new state, then the commit: the ref callbacks of line 480
\* (null for a canvas that left, the element for one that is there), a blank
\* canvas for each new entry, the persist effect (lines 295-299) and the
\* redraw effect when their dependencies changed.  replaced tells that
\* setImages was called: a new array always differs from the old one.
\* storage is localStorage as the handler left it.
Render(newSt, newScheme, newImages, replaced, storage) ==
    LET refs == [u \in DOMAIN canvasRefs \cup Urls(newImages) |->
                    IF u \in Urls(newImages) THEN "canvas" ELSE Null]
    IN  /\ st' = newSt
        /\ colorScheme' = newScheme
        /\ pendingState' = [st |-> newSt, colorScheme |-> newScheme]
        /\ images' = newImages
        /\ canvasRefs' = refs
        /\ surfaces' = [u \in DOMAIN surfaces \cup Urls(newImages) |->
                          IF u \in DOMAIN surfaces THEN surfaces[u] ELSE <<>>]
        /\ localStorage' =
              IF PersistDeps(newSt) # PersistDeps(st)
              THEN [storage EXCEPT !.exifSettings = <<SettingsObject(newSt)>>]
              ELSE storage
        /\ pendingLoads' =
              IF replaced \/ DrawDeps(newSt) # DrawDeps(st)
              THEN pendingLoads (+) RedrawEffect(newImages, refs, newSt, newScheme)
              ELSE pendingLoads

(***************************************************************************)
(* The mount: the first render shows the defaults, then the three effects  *)
(* of lines 288-310 run in the order they are declared, each seeing the    *)
(* state of that first render; the setters they call take effect in the    *)
(* render that follows.                                                    *)
(***************************************************************************)
\* Lines 288-293.
MountThemeEffect ==
    /\ pc = "mount_theme"
    /\ pc' = "mount_persist"
    /\ pendingState' =
          IF localStorage.theme # Null
          THEN [pendingState EXCEPT !.colorScheme = localStorage.theme]
          ELSE pendingState
    /\ UNCHANGED <<localStorage, st, colorScheme, images, canvasRefs, surfaces,
                   objectUrls, urlCount, uploads, lastUpload, pendingLoads,
                   exportJob, downloads, stored0, calc>>

\* Lines 295-299.
MountPersistEffect ==
    /\ pc = "mount_persist"
    /\ pc' = "mount_restore"
    /\ localStorage' =
          [localStorage EXCEPT !.exifSettings = <<SettingsObject(st)>>]
    /\ UNCHANGED <<st, colorScheme, pendingState, images, canvasRefs, surfaces,
                   objectUrls, urlCount, uploads, lastUpload, pendingLoads,
                   exportJob, downloads, stored0, calc>>

\* The five setters of lines 304-308.
Restored(savedSettings, s) ==
    [s EXCEPT !.selectedFont = Saved(savedSettings, "selectedFont"),
              !.fontSize = Saved(savedSettings, "fontSize"),
              !.textColor = Saved(savedSettings, "textColor"),
              !.showOutline = Saved(savedSettings, "showOutline"),
              !.selectedExifFields = Saved(savedSettings, "selectedExifFields")]

\* Lines 301-310.
MountRestoreEffect ==
    /\ pc = "mount_restore"
    /\ pc' = "mount_commit"
    /\ pendingState' =
          IF localStorage.exifSettings # <<>>
          THEN [pendingState EXCEPT
                   !.st = Restored(localStorage.exifSettings[1], pendingState.st)]
          ELSE pendingState
    /\ UNCHANGED <<localStorage, st, colorScheme, images, canvasRefs, surfaces,
                   objectUrls, urlCount, uploads, lastUpload, pendingLoads,
                   exportJob, downloads, stored0, calc>>

\* The render the setters of the mount effects cause, and its effects.
MountCommit ==
    /\ pc = "mount_commit"
    /\ pc' = "ready"
    /\ Render(pendingState.st, pendingState.colorScheme, images, FALSE,
              localStorage)
    /\ UNCHANGED <<objectUrls, urlCount, uploads, lastUpload, exportJob,
                   downloads, stored0, calc>>


(***************************************************************************)
(* The controls of lines 440-469.  A setter called with the value the      *)
(* state already has causes no render, so each action changes the value.   *)
(***************************************************************************)
SetState(newSt) ==
    /\ pc = "ready"
    /\ newSt # st
    /\ Render(newSt, colorScheme, images, FALSE, localStorage)
    /\ UNCHANGED <<pc, objectUrls, urlCount, uploads, lastUpload, exportJob,
                   downloads, stored0, calc>>

SetSelectedFont(v) == SetState([st EXCEPT !.selectedFont = v])
SetResolution(v) == SetState([st EXCEPT !.resolution = v])
SetTextPosition(v) == SetState([st EXCEPT !.textPosition = v])
SetFontSize(v) == SetState([st EXCEPT !.fontSize = v])
SetTextColor(v) == SetState([st EXCEPT !.textColor = v])
SetShowOutline(v) == SetState([st EXCEPT !.showOutline = v])
SetSelectedExifFields(v) == SetState([st EXCEPT !.selectedExifFields = v])
SetImageQuality(v) == SetState([st EXCEPT !.imageQuality = v])

\* Lines 282-286.
ToggleDarkMode ==
    LET newTheme == IF colorScheme = "dark" THEN "light" ELSE "dark"
    IN  /\ pc = "ready"
        /\ Render(st, newTheme, images, FALSE,
                  [localStorage EXCEPT !.theme = newTheme])
        /\ UNCHANGED <<pc, objectUrls, urlCount, uploads, lastUpload,
                       exportJob, downloads, stored0, calc>>

(***************************************************************************)
(* handleImageUpload, lines 312-339.  A file is [name, parsed, width,      *)
(* height, decodable]: parsed is what ExifReader.parse gives for it.  The  *)
(* call makes every object URL at once and then waits for the parses,      *)
(* which settle one by one in any order; the continuation after            *)
(* Promise.all runs with the last of them.                                 *)
(***************************************************************************)
MaxUrls == 3

Entry(file, url) ==
    [file |-> file, url |-> url, exifData |-> ExtractMetadata(file.parsed)]

StartUpload(files) ==
    LET urls == [i \in 1..Len(files) |-> urlCount + i]
    IN  /\ pc = "ready"
        /\ urlCount + Len(files) <= MaxUrls
        /\ objectUrls' = objectUrls \cup Range(urls)
        /\ urlCount' = urlCount + Len(files)
        /\ lastUpload' = urls
        /\ IF files = <<>>
           THEN \* Promise.all of no promise: setImages([]) follows at once
                /\ Render(st, colorScheme, <<>>, TRUE, localStorage)
                /\ UNCHANGED uploads
           ELSE /\ uploads' = uploads \cup
                      {[urls |-> urls, files |-> files,
                        settled |-> [i \in 1..Len(files) |-> <<>>]]}
                /\ UNCHANGED <<localStorage, st, colorScheme, pendingState,
                               images, canvasRefs, surfaces, pendingLoads>>
        /\ UNCHANGED <<pc, exportJob, downloads, stored0, calc>>

\* The parse of file i of upload u settles (it returns or throws), and the
\* async function of line 313 returns the entry.
ParseSettles(u, i) ==
    LET done == [u.settled EXCEPT ![i] = <<Entry(u.files[i], u.urls[i])>>]
    IN  /\ u \in uploads
        /\ i \in 1..Len(u.files)
        /\ u.settled[i] = <<>>
        /\ IF \A k \in 1..Len(done) : done[k] # <<>>
           THEN \* lines 337-338
                /\ uploads' = uploads \ {u}
                /\ Render(st, colorScheme, [k \in 1..Len(done) |-> done[k][1]],
                          TRUE, localStorage)
           ELSE /\ uploads' = (uploads \ {u}) \cup {[u EXCEPT !.settled = done]}
                /\ UNCHANGED <<localStorage, st, colorScheme, pendingState,
                               images, canvasRefs, surfaces, pendingLoads>>
        /\ UNCHANGED <<pc, objectUrls, urlCount, lastUpload, exportJob,
                       downloads, stored0, calc>>

(***************************************************************************)
(* The image of a callback loads (lines 353-406), or fails to decode: no   *)
(* onerror is set, so the canvas is left as it was.  Callbacks fire in any *)
(* order: each belongs to an Image element of its own, and two Images made *)
(* under the same state fire separately.                                   *)
(***************************************************************************)
OnLoad(cb) ==
    /\ BagIn(cb, pendingLoads)
    /\ cb.image.file.decodable
    /\ pendingLoads' = pendingLoads (-) SetToBag({cb})
    /\ surfaces' = [surfaces EXCEPT ![cb.url] = <<Drawing(cb.image, cb.st, cb.dark)>>]
    /\ UNCHANGED <<pc, localStorage, st, colorScheme, pendingState, images,
                   canvasRefs, objectUrls, urlCount, uploads, lastUpload,
                   exportJob, downloads, stored0, calc>>

OnError(cb) ==
    /\ BagIn(cb, pendingLoads)
    /\ ~cb.image.file.decodable
    /\ pendingLoads' = pendingLoads (-) SetToBag({cb})
    /\ UNCHANGED <<pc, localStorage, st, colorScheme, pendingState, images,
                   canvasRefs, surfaces, objectUrls, urlCount, uploads,
                   lastUpload, exportJob, downloads, stored0, calc>>

(***************************************************************************)
(* downloadAllImages, lines 419-433.  The loop runs over the images of the *)
(* render whose button was clicked and awaits a fetch per entry, so other  *)
(* handlers run between its iterations.  A job is [images, idx, blob, zip, *)
(* phase]: blob is what toDataURL read from the canvas of entry idx, zip   *)
(* maps each name filed so far to its blob.  Reading toDataURL of a null   *)
(* canvas throws, which rejects the call: phase "rejected".                *)
(***************************************************************************)
MaxDownloads == 1

\* Lines 424-425 for entry idx: the canvas is looked up and encoded.
Encode(job, idx) ==
    IF canvasRefs[job.images[idx].url] = Null
    THEN [job EXCEPT !.phase = "rejected"]
    ELSE [job EXCEPT !.idx = idx, !.blob = surfaces[job.images[idx].url]]

\* folder.file(name, blob): an entry of that name is replaced.
ZipFile(zip, name, blob) ==
    [n \in DOMAIN zip \cup {name} |-> IF n = name THEN blob ELSE zip[n]]

\* The click: the first iteration up to its await.  The button is disabled
\* while there is no image.
StartExport ==
    /\ pc = "ready"
    /\ exportJob = <<>>
    /\ Len(downloads) < MaxDownloads
    /\ images # <<>>
    /\ exportJob' = <<Encode([images |-> images, idx |-> 1, blob |-> <<>>,
                              zip |-> [n \in {} |-> <<>>],
                              phase |-> "encoding"], 1)>>
    /\ UNCHANGED <<pc, localStorage, st, colorScheme, pendingState, images,
                   canvasRefs, surfaces, objectUrls, urlCount, uploads,
                   lastUpload, pendingLoads, downloads, stored0, calc>>

\* The fetch of entry idx resolves: lines 426-427, then the next iteration
\* up to its await, or generateAsync after the last one.
ExportContinue ==
    /\ exportJob # <<>>
    /\ exportJob[1].phase = "encoding"
    /\ LET job   == exportJob[1]
           filed == [job EXCEPT !.zip = ZipFile(job.zip,
                        ExportName(job.images[job.idx].file.name), job.blob)]
       IN  exportJob' =
              IF job.idx < Len(job.images)
              THEN <<Encode(filed, job.idx + 1)>>
              ELSE <<[filed EXCEPT !.phase = "generating"]>>
    /\ UNCHANGED <<pc, localStorage, st, colorScheme, pendingState, images,
                   canvasRefs, surfaces, objectUrls, urlCount, uploads,
                   lastUpload, pendingLoads, downloads, stored0, calc>>

\* Lines 430-432: the archive is generated and saved.
ExportSave ==
    /\ exportJob # <<>>
    /\ exportJob[1].phase = "generating"
    /\ downloads' = Append(downloads,
          [name |-> "exif_images.zip", folder |-> "exif_images",
           entries |-> exportJob[1].zip, images |-> exportJob[1].images])
    /\ exportJob' = <<>>
    /\ UNCHANGED <<pc, localStorage, st, colorScheme, pendingState, images,
                   canvasRefs, surfaces, objectUrls, urlCount, uploads,
                   lastUpload, pendingLoads, stored0, calc>>


(***************************************************************************)
(* The computations checked on their own: calc holds the input and, once   *)
(* the action has run, the output.                                         *)
(***************************************************************************)
\* Lines 354-363 for an image of calc.width x calc.height.
ComputeScale ==
    /\ calc.op = "scale"
    /\ calc.out = <<>>
    /\ calc' = [calc EXCEPT !.out =
                  <<ScaledSize(calc.width, calc.height, calc.resolution)>>]
    /\ UNCHANGED pageVars

\* Lines 383-405 on a canvas of calc.width x calc.height, for lines of the
\* measured widths calc.textWidths.
ComputeLayout ==
    /\ calc.op = "layout"
    /\ calc.out = <<>>
    /\ LET o == TextOrigin(calc.textPosition, calc.textWidths, calc.fontSize,
                           calc.width, calc.height)
       IN  calc' = [calc EXCEPT !.out =
                      <<[x |-> o.x, y |-> o.y,
                         baselines |-> Baselines(o.y, Len(calc.textWidths),
                                                 calc.fontSize)]>>]
    /\ UNCHANGED pageVars

(***************************************************************************)
(* Inputs.                                                                 *)
(***************************************************************************)
Chars(s) ==
    CASE s = "a.jpg" -> <<"a", ".", "j", "p", "g">>
      [] s = "a.png" -> <<"a", ".", "p", "n", "g">>
      [] s = "b.v2.jpg" -> <<"b", ".", "v", "2", ".", "j", "p", "g">>
      [] s = "scan" -> <<"s", "c", "a", "n">>

FullExif ==
    [Model |-> Str("X100"), DateTimeOriginal |-> Str("2024:05:01 10:00:00"),
     ISO |-> Num(400, 1), ExposureTime |-> Num(1, 200), FNumber |-> Num(28, 10),
     FocalLength |-> Num(50, 1), latitude |-> Num(515, 10),
     longitude |-> Num(-1, 10), ImageDescription |-> Str("harbour")]

PartialExif ==
    [Model |-> Str("X100"), ISO |-> Num(400, 1), ExposureTime |-> Num(2, 93)]

\* A photo with every tag; a file whose EXIF block cannot be parsed; a photo
\* with few tags; a file without EXIF that the browser cannot decode.
PhotoJpg ==
    [name |-> Chars("a.jpg"), parsed |-> [threw |-> FALSE, exif |-> FullExif],
     width |-> 3000, height |-> 2000, decodable |-> TRUE]
PhotoPng ==
    [name |-> Chars("a.png"), parsed |-> [threw |-> TRUE, exif |-> Undef],
     width |-> 2100, height |-> 1400, decodable |-> TRUE]
PhotoPartial ==
    [name |-> Chars("b.v2.jpg"),
     parsed |-> [threw |-> FALSE, exif |-> PartialExif],
     width |-> 800, height |-> 600, decodable |-> TRUE]
Broken ==
    [name |-> Chars("scan"), parsed |-> [threw |-> FALSE, exif |-> Undef],
     width |-> 1, height |-> 1, decodable |-> FALSE]

Files == {PhotoJpg, PhotoPng, PhotoPartial, Broken}

MaxFiles == 2

\* The selections of the file input: up to MaxFiles files, in any order.
Batches == UNION {[1..n -> Files] : n \in 0..MaxFiles}

FontSizeChoices == {20, 36}
TextColorChoices == {"#FFFFFF", "#FF0000"}
FieldChoices == {AllFields, <<"date", "camera">>}

\* What an earlier session of the page can have left in localStorage.
StoredSettings ==
    {<<>>} \cup
    {<<[fontSize |-> f, textColor |-> c, showOutline |-> o,
        selectedExifFields |-> fs]>> :
        f \in FontSizeChoices, c \in TextColorChoices, o \in BOOLEAN,
        fs \in FieldChoices}

StoredThemes == {Null, "light", "dark"}

(***************************************************************************)
(* Specifications.                                                         *)
(***************************************************************************)
\* The page as the first render leaves it, over the given localStorage.
InitPage(themes, settings) ==
    /\ pc = "mount_theme"
    /\ localStorage \in [theme : themes, exifSettings : settings]
    /\ stored0 = localStorage.exifSettings
    /\ st = DefaultState
    /\ colorScheme = "light"
    /\ pendingState = [st |-> DefaultState, colorScheme |-> "light"]
    /\ images = <<>>
    /\ canvasRefs = [u \in {} |-> Null]
    /\ surfaces = [u \in {} |-> <<>>]
    /\ objectUrls = {}
    /\ urlCount = 0
    /\ uploads = {}
    /\ lastUpload = <<>>
    /\ pendingLoads = EmptyBag
    /\ exportJob = <<>>
    /\ downloads = <<>>

Mount ==
    \/ MountThemeEffect
    \/ MountPersistEffect
    \/ MountRestoreEffect
    \/ MountCommit

Loads ==
    \/ \E cb \in BagToSet(pendingLoads) : OnLoad(cb)
    \/ \E cb \in BagToSet(pendingLoads) : OnError(cb)

\* Uploads on a first visit, overlapping or not.
Init ==
    /\ InitPage({Null}, {<<>>})
    /\ calc = [op |-> "none"]

Next ==
    \/ Mount
    \/ \E files \in Batches : StartUpload(files)
    \/ \E u \in uploads : \E i \in 1..Len(u.files) : ParseSettles(u, i)
    \/ Loads

Spec == Init /\ [][Next]_vars

\* Uploads, and exports that run while images load and uploads complete.
ExportBatches == {<<PhotoJpg, PhotoPng>>, <<PhotoPartial>>, <<Broken>>}

NextExport ==
    \/ Mount
    \/ \E files \in ExportBatches : StartUpload(files)
    \/ \E u \in uploads : \E i \in 1..Len(u.files) : ParseSettles(u, i)
    \/ Loads
    \/ StartExport
    \/ ExportContinue
    \/ ExportSave

SpecExport == Init /\ [][NextExport]_vars

\* The mount over every stored state, then the controls of the text.
InitStartup ==
    /\ InitPage(StoredThemes, StoredSettings)
    /\ calc = [op |-> "none"]

NextStartup ==
    \/ Mount
    \/ \E v \in Fonts : SetSelectedFont(v)
    \/ \E v \in FontSizeChoices : SetFontSize(v)
    \/ \E v \in TextColorChoices : SetTextColor(v)
    \/ \E v \in BOOLEAN : SetShowOutline(v)
    \/ \E v \in FieldChoices : SetSelectedExifFields(v)
    \/ \E v \in {"top-left", "bottom-center"} : SetTextPosition(v)
    \/ ToggleDarkMode

SpecStartup == InitStartup /\ [][NextStartup]_vars

\* One upload of one file, then a control the redraw effect depends on, two
\* it does not depend on and one that changes the size of the canvas, used
\* while fewer than MaxPending image loads are outstanding (so that a
\* setting can be changed and changed back before any image has loaded).
MaxPending == 3

RenderBatches == {<<PhotoJpg>>, <<Broken>>}

NextRender ==
    \/ Mount
    \/ \E files \in RenderBatches : urlCount = 0 /\ StartUpload(files)
    \/ \E u \in uploads : \E i \in 1..Len(u.files) : ParseSettles(u, i)
    \/ Loads
    \/ /\ BagCardinality(pendingLoads) < MaxPending
       /\ \/ \E v \in FontSizeChoices : SetFontSize(v)
          \/ \E v \in {"1920", "original"} : SetResolution(v)
          \/ \E v \in {50, 100} : SetImageQuality(v)
          \/ ToggleDarkMode

SpecRender == Init /\ [][NextRender]_vars

\* The scaling of every native size of up to MaxDimSteps steps of DimStep
\* pixels a side.
DimStep == 100
MaxDimSteps == 30

InitScale ==
    /\ InitPage({Null}, {<<>>})
    /\ calc \in [op : {"scale"},
                 width : {DimStep * k : k \in 1..MaxDimSteps},
                 height : {DimStep * k : k \in 1..MaxDimSteps},
                 resolution : ResolutionOptions,
                 out : {<<>>}]

SpecScale == InitScale /\ [][ComputeScale]_vars

\* The layout of up to MaxLines lines on two canvases, for every anchor and
\* every font size the control allows.
MinFontSize == 10
MaxFontSize == 150
MaxLines == 5
LineWidths == {100, 150}
CanvasSizes == {<<800, 600>>, <<1920, 1280>>}

InitLayout ==
    /\ InitPage({Null}, {<<>>})
    /\ \E tp \in TextPositions, f \in MinFontSize..MaxFontSize,
          c \in CanvasSizes, n \in 0..MaxLines :
          \E ws \in [1..n -> LineWidths] :
             calc = [op |-> "layout", textPosition |-> tp, textWidths |-> ws,
                     fontSize |-> f, width |-> c[1], height |-> c[2],
                     out |-> <<>>]

SpecLayout == InitLayout /\ [][ComputeLayout]_vars


(***************************************************************************)
(* The claims.                                                             *)
(***************************************************************************)
\* The EXIF tags a metadata field is made from.
FieldTags(f) ==
    CASE f = "camera" -> {"Model"}
      [] f = "date" -> {"DateTimeOriginal"}
      [] f = "iso" -> {"ISO"}
      [] f = "shutter" -> {"ExposureTime"}
      [] f = "aperture" -> {"FNumber"}
      [] f = "focal" -> {"FocalLength"}
      [] f = "gps" -> {"latitude", "longitude"}
      [] f = "description" -> {"ImageDescription"}

\* The parse of the file gave a value for every tag of the field.
Extracted(parsed, f) ==
    /\ ~parsed.threw
    /\ \A tag \in FieldTags(f) : Prop(parsed.exif, tag) # Undef

\* C1: the metadata of every entry of the collection has all eight fields,
\* and a field for which the parse extracted no value (a tag is absent, the
\* file has no EXIF, or the parse threw) holds exactly "N/A".
C1_MetadataComplete ==
    \A i \in 1..Len(images) :
        /\ DOMAIN images[i].exifData = FieldNames
        /\ \A f \in FieldNames :
              ~Extracted(images[i].file.parsed, f)
                  => images[i].exifData[f] = Str("N/A")

\* C2: the render that ends the mount shows the four persisted settings as
\* they were stored before the mount, and the defaults when nothing was
\* stored.
C2_StoredSettingsRestored ==
    [][(pc = "mount_commit" /\ pc' = "ready")
          => SettingsObject(st') =
                IF stored0 # <<>> THEN stored0[1]
                ELSE SettingsObject(DefaultState)]_vars

\* C3: every archive saved is exif_images.zip with folder exif_images, and
\* holds one entry per image of the export, named <basename>_exif.jpg: as
\* many entries as images.
C3_OneEntryPerImage ==
    \A k \in 1..Len(downloads) :
        LET d == downloads[k]
        IN  /\ d.name = "exif_images.zip"
            /\ d.folder = "exif_images"
            /\ DOMAIN d.entries =
                  {ExportName(d.images[i].file.name) : i \in 1..Len(d.images)}
            /\ Cardinality(DOMAIN d.entries) = Len(d.images)

\* C4: once no upload is pending and every load callback has fired, the
\* canvas of every entry that decodes holds the drawing of that entry under
\* the current settings and the current theme.
C4_SurfacesCurrent ==
    (pc = "ready" /\ uploads = {} /\ BagToSet(pendingLoads) = {})
        => \A i \in 1..Len(images) :
              images[i].file.decodable
                  => surfaces[images[i].url] =
                        <<Drawing(images[i], st, colorScheme = "dark")>>

\* The largest of the widths of a non-empty sequence.
Widest(ws) == CHOOSE m \in Range(ws) : \A w \in Range(ws) : m >= w

\* C5: for every anchor, n lines, font size f, canvas W x H and largest
\* measured width m, the origin is x = 20 (left anchors), W - 20 - m (right
\* anchors), (W - m) / 2 (bottom-center), y = 20 + f (top anchors),
\* H - n * (f + 5) (bottom anchors and bottom-center), and line i is drawn
\* at baseline y + i * (f + 5).  (With no line there is no m and nothing is
\* drawn: x is then not constrained.)
C5_TextOrigin ==
    (calc.op = "layout" /\ calc.out # <<>>) =>
        LET o  == calc.out[1]
            tp == calc.textPosition
            n  == Len(calc.textWidths)
            f  == calc.fontSize
            W  == calc.width
            H  == calc.height
        IN  /\ n >= 1 =>
                 LET m == Widest(calc.textWidths)
                 IN  CASE tp \in {"top-left", "bottom-left"} ->
                            o.x.n = 20 * o.x.d
                       [] tp \in {"top-right", "bottom-right"} ->
                            o.x.n = (W - 20 - m) * o.x.d
                       [] tp = "bottom-center" ->
                            2 * o.x.n = (W - m) * o.x.d
            /\ o.x.d >= 0
            /\ o.y = IF tp \in {"top-left", "top-right"}
                     THEN 20 + f ELSE H - n * (f + 5)
            /\ Len(o.baselines) = n
            /\ \A i \in 0..(n - 1) : o.baselines[i + 1] = o.y + i * (f + 5)

\* The example of C5 has been computed: bottom-right, three lines of at most
\* 150 px, 20 px font, 800 x 600 canvas, origin (630, 525).
C5_Witness ==
    /\ calc.op = "layout"
    /\ calc.textPosition = "bottom-right"
    /\ calc.textWidths = <<100, 150, 100>>
    /\ calc.fontSize = 20
    /\ calc.width = 800
    /\ calc.height = 600
    /\ calc.out # <<>>
    /\ calc.out[1].x = Whole(630)
    /\ calc.out[1].y = 525
    /\ calc.out[1].baselines = <<525, 550, 575>>

\* C6: an image wider than the maximum width M comes out M wide and
\* h * M / w high (here: within less than a pixel of it, the canvas height
\* being an integer); any other image, and every image under "original",
\* keeps its size; no output is wider than M or larger than the image.
C6_OutputDimensions ==
    (calc.op = "scale" /\ calc.out # <<>>) =>
        LET o == calc.out[1]
            w == calc.width
            h == calc.height
            limited == calc.resolution # "original"
        IN  /\ IF limited /\ w > ToNumber(calc.resolution)
               THEN LET M == ToNumber(calc.resolution)
                    IN  /\ o.width = M
                        /\ o.height * w > h * M - w
                        /\ o.height * w < h * M + w
               ELSE o.width = w /\ o.height = h
            /\ limited => o.width <= ToNumber(calc.resolution)
            /\ o.width <= w
            /\ o.height <= h

\* C7: an export is never rejected, and no archive holds an entry made of a
\* canvas that was never drawn.
C7_UnrenderedSkipped ==
    /\ exportJob # <<>> => exportJob[1].phase # "rejected"
    /\ \A k \in 1..Len(downloads) :
          \A n \in DOMAIN downloads[k].entries :
              downloads[k].entries[n] # <<>>

\* C8: when no upload is pending, the object URLs created and not revoked
\* are exactly those of the entries of the collection.
C8_HandlesReleased ==
    uploads = {} => objectUrls = Urls(images)

\* C9: once the mount is over, the font the drawing uses is one of the six
\* fonts offered.
C9_FontOffered ==
    pc = "ready" => st.selectedFont \in Fonts

\* C10: when no upload is pending, the collection is made of the entries of
\* the upload started last (one of at least one file), in file order.
C10_LatestUploadWins ==
    (uploads = {} /\ lastUpload # <<>>)
        => [i \in 1..Len(images) |-> images[i].url] = lastUpload

=============================================================================
